---- MODULE Spec2Model ----
(***************************************************************************)
(* Model of gc_pointer.h: the reference-counted Pointer<T, size> template, *)
(* its static refContainer (the ledger), collect() (the sweep) and         *)
(* shutdown().  One specialization is modelled; its template argument      *)
(* `size` is fixed in the initial state.                                   *)
(***************************************************************************)
EXTENDS Integers, Sequences, FiniteSets, TLC

\* ---------------------------------------------------------------- bounds
\* Number of Pointer objects (stack slots) the client code under study uses.
MaxPtrs == 2
\* Number of distinct heap addresses operator new can hand out.
MaxAddr == 2
\* Template argument `size` of the array specialization (0 is the scalar one).
ArrK == 2

\* ------------------------------------------------------------- addresses
NullAddr == 0
Addrs == 1..MaxAddr
PtrIds == 1..MaxPtrs
\* One more Pointer object, owned by another part of the program: the client
\* code under study never constructs, assigns, copies or destroys it.
Bystander == MaxPtrs + 1
AllPtrs == PtrIds \cup {Bystander}
\* &rv : the address of the Pointer object q itself (not of its pointee).
ObjAddr(q) == MaxAddr + q
ObjAddrs == {ObjAddr(q) : q \in AllPtrs}
\* Some address that is neither a heap block of the model nor a Pointer object.
WildAddr == MaxAddr + MaxPtrs + 2
\* Addresses a delete-expression can have an effect on (delete nullptr has none).
Deletable == Addrs \cup ObjAddrs
\* refcount is an unsigned counter that wraps around; the width is narrowed so
\* that the arithmetic stays inside the checker's integers.
RefcountModulus == 2^30


VARIABLES
    size,          \* template argument of the specialization
    refContainer,  \* static std::list<PtrDetails<T>>
    first,         \* static bool first
    atexitCalls,   \* number of atexit(shutdown) registrations made
    objs,          \* the Pointer objects: addr, isArray, arraySize, whether the
                   \* object is alive and whether its members were ever written
    allocated,     \* heap addresses operator new has returned so far
    freed,         \* addresses passed to delete at least once
    freedAgain,    \* addresses passed to delete more than once
    deletedArray,  \* addresses released with delete[]
    deletedScalar, \* addresses released with delete
    shutdownRan,   \* the process is exiting and shutdown() has run
    invalidDelete, \* a delete of a non-heap or already freed address has run:
                   \* the program has no defined behaviour beyond this state
    last           \* the name of the operation that produced this state

vars == <<size, refContainer, first, atexitCalls, objs, allocated, freed, freedAgain,
          deletedArray, deletedScalar, shutdownRan, invalidDelete, last>>

\* ------------------------------------------------------------ PtrDetails
PtrDetails(ptr, sz) ==
    [memPtr |-> ptr, refcount |-> 1, isArray |-> sz > 0, arraySize |-> sz]

\* A Pointer object whose storage holds no object.
DeadObj == [live |-> FALSE, addrInit |-> FALSE, shapeInit |-> FALSE,
            addr |-> NullAddr, isArray |-> FALSE, arraySize |-> 0]

\* A Pointer object that is alive and none of whose members has been written:
\* addr, isArray and arraySize hold indeterminate values.
UninitObj == [DeadObj EXCEPT !.live = TRUE]


\* ------------------------------------------------------------- the ledger
\* The machine state the member functions thread through: the list, the
\* delete bookkeeping, and the result of the last collect().
Mach == [rc |-> refContainer, fr |-> freed, fr2 |-> freedAgain, dArr |-> deletedArray,
         dSca |-> deletedScalar, bad |-> FALSE, success |-> FALSE]

RECURSIVE findFrom(_, _, _)
findFrom(rc, ptr, i) ==
    IF i > Len(rc) THEN i
    ELSE IF rc[i].memPtr = ptr THEN i
    ELSE findFrom(rc, ptr, i + 1)

\* A lookup that never matches and always returns end().
findPtrInfo_NeverFinds(rc, ptr) == Len(rc) + 1

\* Index of the first record whose memPtr is ptr; Len(rc) + 1 stands for end().
findPtrInfo(rc, ptr) == findFrom(rc, ptr, 1)

Found(rc, ptr) == findPtrInfo(rc, ptr) <= Len(rc)

RemoveAt(s, i) == SubSeq(s, 1, i - 1) \o SubSeq(s, i + 1, Len(s))

\* A release that always takes the scalar path, whatever the record says.
DeleteAndErase_AlwaysScalar(m, i) ==
    LET r == m.rc[i]
        real == r.memPtr # NullAddr
        again == real /\ r.memPtr \in m.fr
        invalid == real /\ (r.memPtr \notin allocated \/ again)
    IN  [rc |-> RemoveAt(m.rc, i),
         fr |-> IF real THEN m.fr \cup {r.memPtr} ELSE m.fr,
         fr2 |-> IF again THEN m.fr2 \cup {r.memPtr} ELSE m.fr2,
         dArr |-> m.dArr,
         dSca |-> IF real THEN m.dSca \cup {r.memPtr} ELSE m.dSca,
         bad |-> m.bad \/ invalid,
         success |-> TRUE]

\* delete / delete[] of the record at position i, then erase(iter).
DeleteAndErase(m, i) ==
    LET r == m.rc[i]
        real == r.memPtr # NullAddr
        again == real /\ r.memPtr \in m.fr
        invalid == real /\ (r.memPtr \notin allocated \/ again)
    IN  [rc |-> RemoveAt(m.rc, i),
         fr |-> IF real THEN m.fr \cup {r.memPtr} ELSE m.fr,
         fr2 |-> IF again THEN m.fr2 \cup {r.memPtr} ELSE m.fr2,
         dArr |-> IF real /\ r.isArray THEN m.dArr \cup {r.memPtr} ELSE m.dArr,
         dSca |-> IF real /\ ~r.isArray THEN m.dSca \cup {r.memPtr} ELSE m.dSca,
         bad |-> m.bad \/ invalid,
         success |-> TRUE]

\* A sweep that steps past the record following each one it erases.
RECURSIVE collectFrom_SkipsNext(_, _)
collectFrom_SkipsNext(m, i) ==
    IF i > Len(m.rc) THEN m
    ELSE IF m.rc[i].refcount = 0 THEN collectFrom_SkipsNext(DeleteAndErase(m, i), i + 1)
    ELSE collectFrom_SkipsNext(m, i + 1)

RECURSIVE collectFrom(_, _)
collectFrom(m, i) ==
    IF i > Len(m.rc) THEN m
    ELSE IF m.rc[i].refcount = 0 THEN collectFrom(DeleteAndErase(m, i), i)
    ELSE collectFrom(m, i + 1)

\* A sweep that returns after the first record it frees.
collect_StopsAfterFirst(m) ==
    LET zero == {i \in DOMAIN m.rc : m.rc[i].refcount = 0}
    IN  IF zero = {}
        THEN [m EXCEPT !.success = FALSE]
        ELSE DeleteAndErase(m, CHOOSE i \in zero : \A j \in zero : i <= j)

\* A sweep that looks at no record and frees nothing.
collect_SweepsNothing(m) == [m EXCEPT !.success = FALSE]

collect(m) == collectFrom([m EXCEPT !.success = FALSE], 1)

\* A release that, when the lookup fails, decrements the first record.
Decrement_FirstWhenMissing(rc, ptr) ==
    LET i == findPtrInfo(rc, ptr)
        j == IF i <= Len(rc) THEN i ELSE 1
    IN  IF Len(rc) > 0
        THEN [rc EXCEPT ![j].refcount = (@ + RefcountModulus - 1) % RefcountModulus]
        ELSE rc

Decrement(rc, ptr) ==
    LET i == findPtrInfo(rc, ptr)
    IN  IF i <= Len(rc)
        THEN [rc EXCEPT ![i].refcount = (@ + RefcountModulus - 1) % RefcountModulus]
        ELSE rc

\* A release that decrements the record but leaves out the sweep.
removePointer_NoSweep(m, thisAddr) ==
    [m EXCEPT !.rc = Decrement(m.rc, thisAddr)]

\* removePointer and the destructor share one body: both look up the
\* member addr, decrement the record found, and sweep.
removePointer(m, thisAddr) ==
    collect([m EXCEPT !.rc = Decrement(m.rc, thisAddr)])

\* A registration that finds the record but forgets to count the new holder.
addPointer_NoIncrement(m, ptr) ==
    IF findPtrInfo(m.rc, ptr) <= Len(m.rc)
    THEN m
    ELSE [m EXCEPT !.rc = Append(@, PtrDetails(ptr, size))]

addPointer(m, ptr) ==
    LET i == findPtrInfo(m.rc, ptr)
    IN  IF i <= Len(m.rc)
        THEN [m EXCEPT !.rc[i].refcount = (@ + 1) % RefcountModulus]
        ELSE [m EXCEPT !.rc = Append(@, PtrDetails(ptr, size))]

\* ------------------------------------------------------------ bookkeeping
\* The state the member functions leave behind becomes the next state.
Commit(result) ==
    \E m \in {result} :
        /\ refContainer' = m.rc
        /\ freed' = m.fr
        /\ freedAgain' = m.fr2
        /\ deletedArray' = m.dArr
        /\ deletedScalar' = m.dSca
        /\ invalidDelete' = m.bad

Live(p) == objs[p].live

\* A new Pointer object takes the lowest slot that holds no object.
NewSlot(p) == ~Live(p) /\ \A r \in PtrIds : r < p => Live(r)

\* What an indeterminate addr can be read as: the address of some record of
\* the list, or an address the list does not know (WildAddr stands for all of
\* these, nullptr included: no record for nullptr outlives a constructor).
UninitAddr == {WildAddr} \cup {refContainer[i].memPtr : i \in DOMAIN refContainer}

\* The values a read of the member addr of object p can yield.
ReadAddr(p) == IF objs[p].addrInit THEN {objs[p].addr} ELSE UninitAddr

\* Object p is alive and its member addr was set to a.
Holds(p, a) == objs[p].live /\ objs[p].addrInit /\ objs[p].addr = a

\* operator new returns the lowest address not handed out before.
Fresh(a) == a \in Addrs \ allocated /\ \A b \in Addrs \ allocated : a <= b

\* A raw address a client may pass: a new allocation, or one already tracked.
Passable(a) == Fresh(a) \/ (a \in Addrs /\ Found(refContainer, a))

Allocate(a) == allocated' = IF a \in Addrs THEN allocated \cup {a} ELSE allocated

Init ==
    /\ size \in {0, ArrK}
    /\ refContainer = <<>>
    /\ first = TRUE
    /\ atexitCalls = 0
    /\ objs = [p \in AllPtrs |-> DeadObj]
    /\ allocated = {}
    /\ freed = {}
    /\ freedAgain = {}
    /\ deletedArray = {}
    /\ deletedScalar = {}
    /\ shutdownRan = FALSE
    /\ invalidDelete = FALSE
    /\ last = "init"

\* The client program is running: it has not started to exit. shutdown() is
\* the atexit handler, so once it has run only destructors still execute.
Running == ~invalidDelete /\ ~shutdownRan

\* A prologue that registers shutdown() on every construction.
RegisterExit_EveryTime ==
    /\ atexitCalls' = atexitCalls + 1
    /\ first' = FALSE

\* The prologue of Pointer(T*): register shutdown() once.
RegisterExit ==
    /\ atexitCalls' = IF first THEN atexitCalls + 1 ELSE atexitCalls
    /\ first' = FALSE

\* Pointer(T *t)
ConstructFromRaw(p, a) ==
    /\ Running /\ NewSlot(p) /\ Passable(a)
    /\ RegisterExit
    /\ Allocate(a)
    /\ Commit(addPointer(Mach, a))
    /\ objs' = [objs EXCEPT ![p] = [live |-> TRUE, addrInit |-> TRUE,
                                    shapeInit |-> TRUE, addr |-> a,
                                    isArray |-> size > 0, arraySize |-> size]]
    /\ last' = "construct"
    /\ UNCHANGED <<size, shutdownRan>>

\* Pointer() { Pointer(nullptr); } : a temporary is constructed from nullptr
\* and destroyed; the members of *this are never written.
ConstructEmpty(p) ==
    /\ Running /\ NewSlot(p)
    /\ RegisterExit
    /\ Commit(removePointer(addPointer(Mach, NullAddr), NullAddr))
    /\ objs' = [objs EXCEPT ![p] = UninitObj]
    /\ last' = "constructEmpty"
    /\ UNCHANGED <<size, allocated, shutdownRan>>

\* operator=(T *t)
AssignRaw(p, a) ==
    /\ Running /\ Live(p) /\ Passable(a)
    /\ Allocate(a)
    /\ \E old \in ReadAddr(p) :
          /\ Commit(addPointer(removePointer(Mach, old), a))
          /\ last' = "assignRaw"
    /\ objs' = [objs EXCEPT ![p].addr = a, ![p].addrInit = TRUE]
    /\ UNCHANGED <<size, first, atexitCalls, shutdownRan>>

\* operator=(const Pointer &rv) { return *(operator=(&rv)); } : the argument
\* handed to operator=(T*) is &rv, the address of the Pointer object rv, not
\* rv.addr. The model follows the call as it is written: the address that is
\* released is this->addr and the address that is registered is that of the
\* object rv; isArray and arraySize of *this are not touched.
AssignPointer(p, q) ==
    /\ Running /\ Live(p) /\ Live(q)
    /\ \E old \in ReadAddr(p) :
          /\ Commit(addPointer(removePointer(Mach, old), ObjAddr(q)))
          /\ last' = "assignPointer"
    /\ objs' = [objs EXCEPT ![p].addr = ObjAddr(q), ![p].addrInit = TRUE]
    /\ UNCHANGED <<size, first, atexitCalls, allocated, shutdownRan>>

\* Pointer(const Pointer &ob) { *this = ob; } : the members of *this are
\* read by operator= before anything has written them.
CopyConstruct(p, q) ==
    /\ Running /\ NewSlot(p) /\ Live(q)
    /\ \E old \in UninitAddr :
          /\ Commit(addPointer(removePointer(Mach, old), ObjAddr(q)))
          /\ last' = "copyConstruct"
    /\ objs' = [objs EXCEPT ![p] = [UninitObj EXCEPT !.addr = ObjAddr(q),
                                                     !.addrInit = TRUE]]
    /\ UNCHANGED <<size, first, atexitCalls, allocated, shutdownRan>>

\* ~Pointer()
Destruct(p) ==
    /\ ~invalidDelete /\ Live(p)
    /\ \E old \in ReadAddr(p) :
          /\ Commit(removePointer(Mach, old))
          /\ last' = "destruct"
    /\ objs' = [objs EXCEPT ![p] = DeadObj]
    /\ UNCHANGED <<size, first, atexitCalls, allocated, shutdownRan>>

\* static bool collect(), called by the client
Collect ==
    /\ Running
    /\ Commit(collect(Mach))
    /\ last' = IF collect(Mach).success THEN "collectTrue" ELSE "collectFalse"
    /\ UNCHANGED <<size, first, atexitCalls, objs, allocated, shutdownRan>>

ZeroAll(rc) == [i \in DOMAIN rc |-> [rc[i] EXCEPT !.refcount = 0]]

shutdown(m) ==
    IF Len(m.rc) = 0 THEN m ELSE collect([m EXCEPT !.rc = ZeroAll(@)])

\* static void shutdown(), called at process exit when it was registered
Shutdown ==
    /\ Running /\ atexitCalls > 0
    /\ Commit(shutdown(Mach))
    /\ shutdownRan' = TRUE
    /\ last' = "shutdown"
    /\ UNCHANGED <<size, first, atexitCalls, objs, allocated>>

Next ==
    \/ \E p \in PtrIds, a \in Addrs : ConstructFromRaw(p, a)
    \/ \E p \in PtrIds : ConstructEmpty(p)
    \/ \E p \in PtrIds, a \in Addrs : AssignRaw(p, a)
    \/ \E p \in PtrIds, q \in PtrIds : AssignPointer(p, q)
    \/ \E p \in PtrIds, q \in PtrIds : CopyConstruct(p, q)
    \/ \E p \in PtrIds : Destruct(p)
    \/ Collect
    \/ Shutdown

Spec == Init /\ [][Next]_vars

\* ------------------------------------------------------ reading the ledger
\* The record the list holds for address a (only used when Found).
RecordOf(rc, a) == rc[findPtrInfo(rc, a)]

\* Number of records of the list whose memPtr is a.
RecordCount(rc, a) == Cardinality({i \in DOMAIN rc : rc[i].memPtr = a})

\* The live Pointer objects whose member addr was set to a.
Holders(os, a) == {p \in AllPtrs : os[p].live /\ os[p].addrInit /\ os[p].addr = a}

\* Addresses that can occur as memPtr of a record.
Tracked == {NullAddr} \cup Addrs \cup ObjAddrs

\* The records for addresses outside `touched` are the same in rc1 and rc2,
\* and stand in the same order.
SameElsewhere(rc1, rc2, touched) ==
    SelectSeq(rc1, LAMBDA r : r.memPtr \notin touched)
        = SelectSeq(rc2, LAMBDA r : r.memPtr \notin touched)

\* ------------------------------------------------------------------ C10
\* C10: in every reachable state no two records of refContainer have the
\* same address.
C10_OneRecordPerAddress ==
    \A i, j \in DOMAIN refContainer :
        refContainer[i].memPtr = refContainer[j].memPtr => i = j

\* A second Pointer was constructed from an address that already had a
\* record: the lookup found it and no second record was added.
C10_Witness ==
    /\ last = "construct"
    /\ Len(refContainer) = 1
    /\ refContainer[1].refcount = 2
    /\ Cardinality(Holders(objs, refContainer[1].memPtr)) = 2

\* ------------------------------------------------------------------- C8
\* C8: constructing a Pointer from raw address a increments the record of a
\* when there is one and adds no record; otherwise it appends exactly one
\* record for a with count 1, tagged as an array of `size` elements when
\* size > 0 and as a scalar otherwise. No other record changes, and the new
\* Pointer holds a with the same array flag and element count.
C8_ConstructFromRaw ==
    [][\A p \in PtrIds, a \in Addrs :
          (last' = "construct" /\ ConstructFromRaw(p, a)) =>
              /\ IF Found(refContainer, a)
                 THEN /\ Len(refContainer') = Len(refContainer)
                      /\ RecordOf(refContainer', a).refcount
                             = RecordOf(refContainer, a).refcount + 1
                 ELSE /\ Len(refContainer') = Len(refContainer) + 1
                      /\ RecordOf(refContainer', a).refcount = 1
              /\ RecordCount(refContainer', a) = 1
              /\ RecordOf(refContainer', a).isArray = (size > 0)
              /\ size > 0 => RecordOf(refContainer', a).arraySize = size
              /\ SameElsewhere(refContainer, refContainer', {a})
              /\ freed' = freed
              /\ Holds(p, a)'
              /\ objs'[p].shapeInit
              /\ objs'[p].isArray = RecordOf(refContainer', a).isArray
              /\ objs'[p].arraySize = RecordOf(refContainer', a).arraySize
      ]_vars

\* In the array specialization, an address was registered by one constructor
\* and its record incremented by a second one.
C8_Witness ==
    /\ last = "construct"
    /\ size = ArrK
    /\ Len(refContainer) = 1
    /\ refContainer[1] = [memPtr |-> 1, refcount |-> 2,
                          isArray |-> TRUE, arraySize |-> ArrK]
    /\ Holds(1, 1) /\ Holds(2, 1)

\* What a reassignment from tracked address a to address b # a does to the
\* ledger and the heap, as C7 states it.
ReassignEffect(a, b) ==
    /\ IF RecordOf(refContainer, a).refcount = 1
       THEN /\ ~Found(refContainer', a)
            /\ a # NullAddr => a \in freed'
       ELSE /\ RecordCount(refContainer', a) = 1
            /\ RecordOf(refContainer', a).refcount
                   = RecordOf(refContainer, a).refcount - 1
            /\ a \in freed' <=> a \in freed
    /\ RecordCount(refContainer', b) = 1
    /\ RecordOf(refContainer', b).refcount
           = IF Found(refContainer, b)
             THEN RecordOf(refContainer, b).refcount + 1
             ELSE 1
    /\ SameElsewhere(refContainer, refContainer', {a, b})
    /\ freed' \subseteq freed \cup {a}

\* ------------------------------------------------------------------- C7
\* C7: assigning raw address b to a Pointer that holds a tracked address
\* a # b decrements the record of a by one and increments the record of b by
\* one, creating it with count 1 when b had none; when the count of a reaches
\* zero, a has been deleted and its record removed when the assignment
\* returns; every other record is unchanged.
C7_ReassignRaw ==
    [][last' = "assignRaw" =>
          \A p \in PtrIds :
              (Live(p) /\ objs[p].addrInit /\ Found(refContainer, objs[p].addr)) =>
                  \A b \in {objs'[p].addr} \cap (Addrs \ {objs[p].addr}) :
                      AssignRaw(p, b) => ReassignEffect(objs[p].addr, b)
      ]_vars

\* Pointer 1 held address 1 alone and was assigned the new address 2: the
\* record of 1 is gone, 1 was deleted, and 2 has a record with count 1.
C7_Witness ==
    /\ last = "assignRaw"
    /\ Holds(1, 2) /\ ~Live(2)
    /\ refContainer = <<PtrDetails(2, size)>>
    /\ freed = {1}
    /\ ~invalidDelete

\* ------------------------------------------------------------------- C1
\* C1: between operations and before shutdown has run, every address held
\* by a live Pointer has a record in refContainer whose refcount equals the
\* number of live Pointers holding that address.
C1_CountEqualsHolders ==
    (~shutdownRan /\ ~invalidDelete) =>
        \A a \in Tracked :
            Holders(objs, a) # {} =>
                /\ Found(refContainer, a)
                /\ RecordOf(refContainer, a).refcount = Cardinality(Holders(objs, a))

\* ------------------------------------------------------------------- C2
\* C2: before shutdown runs, a step that deletes address a is the destruction
\* or the reassignment of a Pointer, and leaves no live Pointer holding a.
C2_FreedOnlyWithLastHolder ==
    [][\A a \in Addrs :
          (a \in freed' \ freed /\ ~shutdownRan') =>
              /\ last' \in {"destruct", "assignRaw", "assignPointer"}
              /\ Holders(objs', a) = {}
      ]_vars

\* ------------------------------------------------------------------- C4
\* C4: over any sequence of operations in which every raw address passed in
\* is newly allocated or currently tracked, no address is deleted more than
\* once.
C4_NoDoubleFree == freedAgain = {}

\* ------------------------------------------------------------------- C5
\* C5: assigning to a Pointer that holds address a a right-hand side that
\* designates a as well (the raw address a, the Pointer itself, or another
\* Pointer holding a) deletes nothing, and afterwards a has exactly one
\* record, whose refcount is the number of live Pointers holding a.
C5_SameAddressAssignment ==
    [][\A p \in PtrIds, a \in Addrs :
          (/\ Holds(p, a)
           /\ Found(refContainer, a)
           /\ \/ AssignRaw(p, a)
              \/ \E q \in PtrIds : Holds(q, a) /\ AssignPointer(p, q)) =>
              /\ freed' = freed
              /\ RecordCount(refContainer', a) = 1
              /\ RecordOf(refContainer', a).refcount = Cardinality(Holders(objs', a))
      ]_vars

\* ------------------------------------------------------------------- C6
\* C6: copy construction or copy assignment of Pointer p from Pointer q,
\* which holds address b, leaves p holding b with q's array flag and element
\* count and increments the record of b by exactly one; a copy assignment
\* over a p that held a tracked address a # b first decrements the record of
\* a by one. No other record changes and no record is created.
C6_CopyAdoptsSource ==
    [][\A p \in PtrIds, q \in PtrIds, b \in Addrs :
          (/\ Holds(q, b) /\ Found(refContainer, b)
           /\ CopyConstruct(p, q) \/ (AssignPointer(p, q) /\ ~Holds(p, b))) =>
              /\ Holds(p, b)'
              /\ objs'[p].shapeInit
              /\ objs'[p].isArray = objs[q].isArray
              /\ objs'[p].arraySize = objs[q].arraySize
              /\ RecordCount(refContainer', b) = 1
              /\ RecordOf(refContainer', b).refcount
                     = RecordOf(refContainer, b).refcount + 1
              /\ \A c \in Tracked \ {b} :
                     /\ Found(refContainer', c) => Found(refContainer, c)
                     /\ (Found(refContainer', c) /\ ~Holds(p, c)) =>
                            RecordOf(refContainer', c) = RecordOf(refContainer, c)
                     /\ (Found(refContainer, c) /\ Holds(p, c)
                           /\ RecordOf(refContainer, c).refcount > 1) =>
                            /\ Found(refContainer', c)
                            /\ RecordOf(refContainer', c).refcount
                                   = RecordOf(refContainer, c).refcount - 1
      ]_vars

\* ------------------------------------------------------------------- C9
\* C9: default construction registers nothing: refContainer is what it was,
\* holds no record for nullptr, and the new Pointer's addr is nullptr, so
\* that destroying it later changes no record and deletes nothing.
C9_DefaultConstruction ==
    [][\A p \in PtrIds :
          /\ ConstructEmpty(p) =>
                /\ refContainer' = refContainer
                /\ ~Found(refContainer', NullAddr)
                /\ ReadAddr(p)' = {NullAddr}
          /\ (Destruct(p) /\ ~objs[p].addrInit) =>
                /\ refContainer' = refContainer
                /\ freed' = freed
      ]_vars

\* ------------------------------------------------------------------- C3
\* The scenario of C3: one Pointer is constructed from a new allocation,
\* further Pointers are copy-constructed from it or from its copies, and all
\* of them are destroyed in any order. The scenario starts in one of four
\* states of the program: nothing has happened yet; another Pointer, the
\* bystander, was constructed from allocation 1 and still holds it; the
\* bystander was default-constructed and then assigned allocation 1; or the
\* bystander was default-constructed after an earlier Pointer had held
\* allocation 1 and was destroyed.
ScenarioAddr == IF Live(Bystander) THEN 2 ELSE 1

\* Len(refContainer) before the original is constructed.
BaseSize == IF Holds(Bystander, 1) THEN 1 ELSE 0

InitCopy ==
    /\ size \in {0, ArrK}
    /\ \/ /\ refContainer = <<>>
          /\ first = TRUE
          /\ atexitCalls = 0
          /\ objs = [p \in AllPtrs |-> DeadObj]
          /\ allocated = {}
          /\ freed = {}
          /\ deletedArray = {}
          /\ deletedScalar = {}
          /\ last = "init"
       \/ /\ refContainer = <<PtrDetails(1, size)>>
          /\ first = FALSE
          /\ atexitCalls = 1
          /\ objs = [p \in AllPtrs |->
                        IF p = Bystander
                        THEN [live |-> TRUE, addrInit |-> TRUE, shapeInit |-> TRUE,
                              addr |-> 1, isArray |-> size > 0, arraySize |-> size]
                        ELSE DeadObj]
          /\ allocated = {1}
          /\ freed = {}
          /\ deletedArray = {}
          /\ deletedScalar = {}
          /\ last = "construct"
       \/ /\ refContainer = <<PtrDetails(1, size)>>
          /\ first = FALSE
          /\ atexitCalls = 1
          /\ objs = [p \in AllPtrs |->
                        IF p = Bystander
                        THEN [UninitObj EXCEPT !.addr = 1, !.addrInit = TRUE]
                        ELSE DeadObj]
          /\ allocated = {1}
          /\ freed = {}
          /\ deletedArray = {}
          /\ deletedScalar = {}
          /\ last = "assignRaw"
       \/ /\ refContainer = <<>>
          /\ first = FALSE
          /\ atexitCalls = 1
          /\ objs = [p \in AllPtrs |-> IF p = Bystander THEN UninitObj ELSE DeadObj]
          /\ allocated = {1}
          /\ freed = {1}
          /\ deletedArray = IF size > 0 THEN {1} ELSE {}
          /\ deletedScalar = IF size > 0 THEN {} ELSE {1}
          /\ last = "constructEmpty"
    /\ freedAgain = {}
    /\ shutdownRan = FALSE
    /\ invalidDelete = FALSE

ConstructOriginal(p) ==
    /\ ScenarioAddr \notin allocated
    /\ ConstructFromRaw(p, ScenarioAddr)

NextCopy ==
    \/ \E p \in PtrIds : ConstructOriginal(p)
    \/ \E p \in PtrIds, q \in PtrIds : CopyConstruct(p, q)
    \/ \E p \in PtrIds : Destruct(p)

SpecCopy == InitCopy /\ [][NextCopy]_vars

\* C3: once the original and all its copies are destroyed, refContainer has
\* no record for the address, the address was deleted exactly once, and
\* refContainer is as long as before the original was constructed.
C3_CopiesThenDestroyAll ==
    (ScenarioAddr \in allocated /\ \A p \in PtrIds : ~Live(p)) =>
        /\ ~Found(refContainer, ScenarioAddr)
        /\ ScenarioAddr \in freed \ freedAgain
        /\ Len(refContainer) = BaseSize

\* ------------------------------------------------------------------ C11
\* C11: from any reachable state, whatever the counts and however many
\* Pointers are still alive, a run of shutdown() leaves refContainer empty
\* and every address that had a record deleted exactly once; on an empty
\* refContainer it changes nothing.
C11_ShutdownFreesAllOnce ==
    [][last' = "shutdown" =>
          /\ refContainer' = <<>>
          /\ \A a \in Tracked \ {NullAddr} :
                 Found(refContainer, a) =>
                     a \in freed' /\ a \notin freed /\ a \notin freedAgain'
          /\ refContainer = <<>> =>
                 freed' = freed /\ freedAgain' = freedAgain
      ]_vars

\* ------------------------------------------------------------------ C13
\* C13: in the specialization with size > 0 every record is tagged as an
\* array and every address that is deleted, by a destructor, a reassignment,
\* collect() or shutdown(), is released with delete[] and never with delete;
\* in the specialization with size = 0 every record is tagged as a scalar
\* and every deleted address is released with delete and never with delete[].
C13_DeallocationPath ==
    /\ \A i \in DOMAIN refContainer : refContainer[i].isArray = (size > 0)
    /\ deletedArray \cup deletedScalar = freed
    /\ size > 0 => deletedScalar = {}
    /\ size = 0 => deletedArray = {}

\* In the array specialization one allocation was released by a destructor
\* and, later, another one by shutdown(): both went through delete[].
C13_Witness ==
    /\ size = ArrK
    /\ last = "shutdown"
    /\ deletedArray = {1, 2}
    /\ freedAgain = {}
    /\ Holds(1, 2) /\ ~Live(2)

\* ------------------------------------------------------------ range views
\* Iter<T>(current position, lower bound, upper bound)
Iter(pos, lo, hi) == [ptr |-> pos, begin |-> lo, end |-> hi]

\* Element counts an indeterminate isArray / arraySize pair can yield.
IndeterminateSpan == 0..(ArrK + 1)

\* The values _size can take in begin() and end() of object p.
ReadSpan(p) ==
    IF objs[p].shapeInit
    THEN {IF objs[p].isArray THEN objs[p].arraySize ELSE 1}
    ELSE IndeterminateSpan

\* Iter<T> begin() : the views a call on object p can return.
begin(p) == {Iter(a, a, a + s) : a \in ReadAddr(p), s \in ReadSpan(p)}

\* Iter<T> end() : the views a call on object p can return.
end(p) == {Iter(a + s, a, a + s) : a \in ReadAddr(p), s \in ReadSpan(p)}

\* Number of elements of the allocations of this specialization.
ElementCount == IF size > 0 THEN size ELSE 1

\* ------------------------------------------------------------------ C14
\* C14: for every live Pointer that holds address a, however it was created
\* or updated, begin() is the view at a with bounds [a, a + S) and end() is
\* the view at a + S with the same bounds, S being 1 in the scalar
\* specialization and `size` in an array specialization.
C14_RangeViews ==
    \A p \in PtrIds, a \in Addrs :
        Holds(p, a) =>
            /\ begin(p) = {Iter(a, a, a + ElementCount)}
            /\ end(p) = {Iter(a + ElementCount, a, a + ElementCount)}

\* ------------------------------------------------------------------ C15
\* The count of a record read as a signed number: a decrement of a count
\* that is already zero wraps around and shows up as a negative value.
SignedCount(c) == IF c >= RefcountModulus \div 2 THEN c - RefcountModulus ELSE c

NoRecordRemoved(rc, rc2) ==
    \A i \in DOMAIN rc : Found(rc2, rc[i].memPtr)

\* C16: releasing an address that has no record is a no-op. Destroying a
\* Pointer whose held address is not in refContainer changes no record and
\* deletes nothing; reassigning such a Pointer removes no record, deletes
\* nothing, and changes no record but that of the address assigned, which
\* gains the new holder.
C16_ReleaseOfUntracked ==
    [][last' \in {"destruct", "assignRaw", "assignPointer"} =>
          \A p \in PtrIds :
              (Live(p) /\ objs[p].addrInit /\ ~Found(refContainer, objs[p].addr)) =>
                  /\ Destruct(p) =>
                         /\ refContainer' = refContainer
                         /\ freed' = freed
                         /\ freedAgain' = freedAgain
                  /\ \A b \in {objs'[p].addr} \cap Tracked :
                         (AssignRaw(p, b) \/ \E q \in PtrIds : AssignPointer(p, q)) =>
                             /\ NoRecordRemoved(refContainer, refContainer')
                             /\ SameElsewhere(refContainer, refContainer', {b})
                             /\ Found(refContainer, b) =>
                                    RecordOf(refContainer', b).refcount
                                        = RecordOf(refContainer, b).refcount + 1
                             /\ freed' = freed
                             /\ freedAgain' = freedAgain
      ]_vars

\* shutdown() emptied refContainer while Pointer 1 held address 1, and a
\* second Pointer was destroyed afterwards: nothing more was deleted.
C16_Witness ==
    /\ shutdownRan
    /\ last = "destruct"
    /\ Holds(1, 1) /\ ~Live(2)
    /\ refContainer = <<>>
    /\ allocated = {1, 2}
    /\ freed = {1, 2}
    /\ freedAgain = {}
    /\ ~invalidDelete

\* ------------------------------------------------------------------ C17
\* Some Pointer of the specialization has been constructed.
SomePointerConstructed ==
    \/ last \in {"construct", "constructEmpty", "copyConstruct"}
    \/ \E p \in PtrIds : Live(p)
    \/ refContainer # <<>>
    \/ allocated # {}

\* C17: shutdown() is registered with atexit at most once, and it is
\* registered by the first construction of a Pointer: whenever a Pointer has
\* been constructed, it is registered exactly once.
C17_ExitHookOnce ==
    /\ atexitCalls <= 1
    /\ SomePointerConstructed => atexitCalls = 1
    /\ atexitCalls = 1 <=> ~first

\* A second Pointer was constructed after the first one: the flag `first`
\* was already false and shutdown() was not registered again.
C17_Witness ==
    /\ last = "construct"
    /\ Live(1) /\ Live(2)
    /\ atexitCalls = 1
    /\ ~first

\* ------------------------------------------------------------------ C20
\* C20: reclamation is eager. When a destructor or a reassignment returns,
\* and in every other state between two operations, every record of
\* refContainer has a refcount of at least 1; a collect() called by the
\* client in such a state deletes nothing, removes nothing and returns false.
C20_EagerReclamation ==
    [][/\ \A i \in DOMAIN refContainer' :
              SignedCount(refContainer'[i].refcount) >= 1
       /\ last' \in {"collectTrue", "collectFalse"} =>
              /\ last' = "collectFalse"
              /\ refContainer' = refContainer
              /\ freed' = freed
      ]_vars

\* Address 1 was reclaimed when its last holder was reassigned, address 2
\* is still held, and a collect() called by the client found nothing to do.
C20_Witness ==
    /\ last = "collectFalse"
    /\ freed = {1}
    /\ refContainer = <<PtrDetails(2, size)>>
    /\ Holds(1, 2) /\ ~Live(2)
    /\ ~invalidDelete

\* ------------------------------------------------------------ the sweep
\* collect() and shutdown() as functions of the list: the initial states
\* range over the lists the member functions hand to collect(), records at
\* count zero included (a destructor or removePointer has just decremented,
\* shutdown() has just zeroed), with one record per address at most.
MaxCount == 2

SweepAddrs == {NullAddr} \cup Addrs

\* The lists of n records over distinct addresses, in every order.
RECURSIVE LedgersOfLen(_)
LedgersOfLen(n) ==
    IF n = 0 THEN {<<>>}
    ELSE {Append(rc, [PtrDetails(a, size) EXCEPT !.refcount = c]) :
              rc \in LedgersOfLen(n - 1),
              a \in SweepAddrs,
              c \in 0..MaxCount} 

Ledgers ==
    {rc \in UNION {LedgersOfLen(n) : n \in 0..MaxAddr} :
         \A i, j \in DOMAIN rc : rc[i].memPtr = rc[j].memPtr => i = j}

InitSweep ==
    /\ size \in {0, ArrK}
    /\ refContainer \in Ledgers
    /\ first = FALSE
    /\ atexitCalls = 1
    /\ objs = [p \in AllPtrs |-> DeadObj]
    /\ allocated = {refContainer[i].memPtr : i \in DOMAIN refContainer} \ {NullAddr}
    /\ freed = {}
    /\ freedAgain = {}
    /\ deletedArray = {}
    /\ deletedScalar = {}
    /\ shutdownRan = FALSE
    /\ invalidDelete = FALSE
    /\ last = "init"

NextSweep == Collect \/ Shutdown

SpecSweep == InitSweep /\ [][NextSweep]_vars

\* The step is a call of collect() by the client.
CollectReturned == last' \in {"collectTrue", "collectFalse"}

\* ------------------------------------------------------------------ C12
\* C12: collect() is idempotent. From any list, a collect() that follows a
\* collect() with nothing in between returns false, deletes nothing and
\* leaves the list as the first call left it; and every collect() returns
\* true exactly when it removed at least one record.
C12_CollectIdempotent ==
    [][CollectReturned =>
          /\ last' = "collectTrue" <=> Len(refContainer') < Len(refContainer)
          /\ last \in {"collectTrue", "collectFalse"} =>
                 /\ last' = "collectFalse"
                 /\ refContainer' = refContainer
                 /\ freed' = freed
                 /\ freedAgain' = freedAgain
                 /\ deletedArray' = deletedArray
                 /\ deletedScalar' = deletedScalar
      ]_vars

\* A first collect() freed both records of the list and a second one,
\* called right after it, returned false.
C12_Witness ==
    /\ last = "collectFalse"
    /\ ~shutdownRan
    /\ refContainer = <<>>
    /\ freed = Addrs
    /\ freedAgain = {}

\* ------------------------------------------------------------------ C18
\* Addresses of the records of rc whose count is zero.
ZeroCounted(rc) == {rc[i].memPtr : i \in {j \in DOMAIN rc : rc[j].refcount = 0}}

Root == Bystander

MemberOf(a) == a

\* The machine state of the member functions, with the Pointer objects the
\* destructors of the pointees destroy.
MachNested == [rc |-> refContainer, fr |-> freed, fr2 |-> freedAgain,
               dArr |-> deletedArray, dSca |-> deletedScalar, bad |-> FALSE,
               success |-> FALSE, os |-> objs]

RECURSIVE collectNestedFrom(_, _)
RECURSIVE destructNested(_, _)

\* delete / delete[] iter->memPtr for the record at position i: the record is
\* still in the list while ~T() and the destructor of the member run.
deleteNested(m, i) ==
    LET r == m.rc[i]
        a == r.memPtr
        real == a # NullAddr
        again == real /\ a \in m.fr
        invalid == real /\ (a \notin allocated \/ again)
        m1 == [m EXCEPT !.fr = IF real THEN @ \cup {a} ELSE @,
                        !.fr2 = IF again THEN @ \cup {a} ELSE @,
                        !.dArr = IF real /\ r.isArray THEN @ \cup {a} ELSE @,
                        !.dSca = IF real /\ ~r.isArray THEN @ \cup {a} ELSE @,
                        !.bad = @ \/ invalid]
    IN  IF m1.bad \/ a \notin PtrIds THEN m1
        ELSE IF m1.os[MemberOf(a)].live THEN destructNested(m1, MemberOf(a))
        ELSE m1

\* collect() for such a T. A delete of an address that is not a live
\* allocation, or an erase through an iterator whose record a nested sweep
\* has already erased, has no defined behaviour: the sweep is not followed
\* beyond it.
collectNestedFrom(m, i) ==
    IF m.bad \/ i > Len(m.rc) THEN m
    ELSE IF m.rc[i].refcount = 0
         THEN LET a == m.rc[i].memPtr
                  d == deleteNested(m, i)
                  j == findPtrInfo(d.rc, a)
              IN  IF d.bad THEN d
                  ELSE IF j > Len(d.rc) THEN [d EXCEPT !.bad = TRUE]
                  ELSE collectNestedFrom([d EXCEPT !.rc = RemoveAt(@, j),
                                                   !.success = TRUE], j)
         ELSE collectNestedFrom(m, i + 1)

collectNested(m) == collectNestedFrom([m EXCEPT !.success = FALSE], 1)

\* ~Pointer() of object q: decrement the record of addr, then collect().
destructNested(m, q) ==
    collectNested([m EXCEPT !.rc = Decrement(@, m.os[q].addr),
                            !.os[q] = DeadObj])

shutdownNested(m) ==
    IF Len(m.rc) = 0 THEN m ELSE collectNested([m EXCEPT !.rc = ZeroAll(@)])

CommitNested(result) ==
    \E m \in {result} : Commit(m) /\ objs' = m.os

\* The orders in which the records of the addresses B can stand in the list.
Orders(B) ==
    {s \in [1..Cardinality(B) -> B] : \A i, j \in DOMAIN s : s[i] = s[j] => i = j}

\* Allocations 1..k are alive; the member of each holds one of them, the
\* root holds one of them or does not exist, every allocation has a holder,
\* and the count of each record is the number of its holders.
InitNested ==
    /\ size \in {0, ArrK}
    /\ \E k \in 1..MaxAddr :
         \E f \in [1..k -> 1..k], r \in {NullAddr} \cup 1..k, order \in Orders(1..k) :
           LET holders(a) == Cardinality({b \in 1..k : f[b] = a})
                                 + (IF r = a THEN 1 ELSE 0)
           IN  /\ k <= MaxPtrs
               /\ \A a \in 1..k : holders(a) >= 1
               /\ refContainer = [i \in 1..k |->
                                     [PtrDetails(order[i], size)
                                          EXCEPT !.refcount = holders(order[i])]]
               /\ objs = [p \in AllPtrs |->
                            IF p = Root
                            THEN IF r = NullAddr THEN DeadObj
                                 ELSE [live |-> TRUE, addrInit |-> TRUE,
                                       shapeInit |-> TRUE, addr |-> r,
                                       isArray |-> size > 0, arraySize |-> size]
                            ELSE IF p \in 1..k
                                 THEN [UninitObj EXCEPT !.addr = f[p], !.addrInit = TRUE]
                                 ELSE DeadObj]
               /\ allocated = 1..k
    /\ first = FALSE
    /\ atexitCalls = 1
    /\ freed = {}
    /\ freedAgain = {}
    /\ deletedArray = {}
    /\ deletedScalar = {}
    /\ shutdownRan = FALSE
    /\ invalidDelete = FALSE
    /\ last = "init"

\* ~Pointer() of the root
DestructRoot ==
    /\ ~invalidDelete /\ Live(Root)
    /\ CommitNested(destructNested(MachNested, Root))
    /\ last' = "destruct"
    /\ UNCHANGED <<size, first, atexitCalls, allocated, shutdownRan>>

\* operator=(T *t) of the root, t being an allocation already tracked
AssignRootRaw(a) ==
    /\ Running /\ Live(Root) /\ Found(refContainer, a)
    /\ \E m \in {collectNested([MachNested EXCEPT
                                   !.rc = Decrement(@, objs[Root].addr)])} :
          CommitNested([m EXCEPT !.rc = IF m.bad THEN @
                                        ELSE addPointer([rc |-> @], a).rc,
                                 !.os[Root].addr = a])
    /\ last' = "assignRaw"
    /\ UNCHANGED <<size, first, atexitCalls, allocated, shutdownRan>>

\* collect() called by the client
CollectNested ==
    /\ Running
    /\ CommitNested(collectNested(MachNested))
    /\ last' = IF collectNested(MachNested).success THEN "collectTrue" ELSE "collectFalse"
    /\ UNCHANGED <<size, first, atexitCalls, allocated, shutdownRan>>

\* shutdown() at process exit
ShutdownNested ==
    /\ Running /\ atexitCalls > 0
    /\ CommitNested(shutdownNested(MachNested))
    /\ shutdownRan' = TRUE
    /\ last' = "shutdown"
    /\ UNCHANGED <<size, first, atexitCalls, allocated>>

NextNested ==
    \/ DestructRoot
    \/ \E a \in Addrs : AssignRootRaw(a)
    \/ CollectNested
    \/ ShutdownNested

SpecNested == InitNested /\ [][NextNested]_vars

\* ------------------------------------------------------------------ C19
\* C19: when the delete of a record's pointee runs a nested collect() (the
\* pointee's destructor destroys a Pointer of the same specialization), the
\* nested sweep does not find the record the outer sweep is freeing: every
\* address is deleted once at most, and the outer sweep goes on from a valid
\* position of the list.
C19_NestedSweepSafe ==
    /\ ~invalidDelete
    /\ \A a \in Addrs : a \in freed => a \notin freedAgain

====
